---- MODULE Spec2Model ----
(***************************************************************************)
(* Model of relm-gen-widget/src/gen.rs: the lowering of a parsed widget    *)
(* tree into construction statements, event wiring and the Container       *)
(* trait implementation.                                                   *)
(*                                                                         *)
(* The recursion of Generator::widget is unfolded into an explicit call    *)
(* stack: entering a node runs gtk_widget / relm_widget up to the point    *)
(* where the children are visited, leaving a node runs the rest and        *)
(* returns the node's tokens to the caller.                                *)
(***************************************************************************)
EXTENDS Integers, Sequences, FiniteSets, TLC

\* Largest number of widgets in an input tree.
MaxNodes == 3

(***************************************************************************)
(* Rust values.                                                            *)
(***************************************************************************)
\* Option<T>: a sequence of length at most one.
None == <<>>
Some(x) == <<x>>

\* HashMap::insert on a map modelled as a function.
MapInsert(m, k, v) == [x \in (DOMAIN m) \cup {k} |-> IF x = k THEN v ELSE m[x]]

EmptyMap == [x \in {} |-> x]

RECURSIVE Concat(_)
\* quote!'s #(#items)* : the items' tokens one after the other.
Concat(ss) == IF ss = <<>> THEN <<>> ELSE Head(ss) \o Concat(Tail(ss))

\* A syn::Path without generic arguments.
Path(segments) == [segments |-> segments, args |-> <<>>]

\* The marker syntax Remover strips from a property value.
Marker == "@"

\* Remover::fold_expr: the expression without its marker tokens.
fold_expr(value) == SelectSeq(value, LAMBDA t : t # Marker)

(***************************************************************************)
(* The input: a widget tree.  tree[i] is the i-th widget in declaration    *)
(* (pre-order) order, tree[1] the root; parent = 0 marks the root.  A      *)
(* widget is [name, typ, parent, widget, properties, child_properties,     *)
(* init_parameters, container_type], where widget is                       *)
(* [tag |-> "Gtk", events, child_events, save, relm_name] or               *)
(* [tag |-> "Relm", events].                                               *)
(***************************************************************************)
VARIABLES tree,          \* gen's widget argument
          pc,            \* "walk", "assemble", "container_impl", "done", "panic"
          stack,         \* the active calls of Generator::widget
          generator,     \* the Generator's fields
          driver,        \* the Driver
          widget_tokens, \* gen's local widget_tokens
          code,          \* gen's local code
          result,        \* gen's return value
          panic,         \* the panic that aborted gen
          root_writes,   \* history: the widgets that stored the driver's root fields
          remover_calls  \* history: the values handed to Remover::fold_expr

vars == <<tree, pc, stack, generator, driver, widget_tokens, code, result, panic,
          root_writes, remover_calls>>

\* widget.children, as indices into tree, in declaration order.
Children(t, n) == SelectSeq([i \in 1..Len(t) |-> i], LAMBDA i : t[i].parent = n)

RECURSIVE Ancestors(_, _)
\* n and the widgets above it.
Ancestors(p, n) == IF n = 0 THEN {} ELSE {n} \cup Ancestors(p, p[n])

\* The parent functions of the trees of n widgets numbered in pre-order.
Shapes(n) ==
    {p \in [1..n -> 0..(n - 1)] :
        /\ p[1] = 0
        /\ \A i \in 2..n : p[i] \in Ancestors(p, i - 1)}

(***************************************************************************)
(* Token fragments.  Tokens are sequences of statements; a statement is a  *)
(* record whose stmt field names its form.                                 *)
(***************************************************************************)
\* gen_construct_widget without the is_empty test of line 377.
gen_construct_widget_generic(widget) ==
    [call |-> "g_object_new", typ |-> widget.typ, params |-> widget.init_parameters]

\* gen_construct_widget, lines 372-393.
gen_construct_widget(widget) ==
    IF widget.init_parameters = <<>>
    THEN [call |-> "g_object_new", typ |-> widget.typ, params |-> widget.init_parameters]
    ELSE [call |-> "new", typ |-> widget.typ, params |-> widget.init_parameters]

\* gen_model_ident, lines 395-406.
gen_model_ident(event) == IF event.use_self THEN <<"with", "clone_ident">> ELSE <<>>

\* gen_clone cloning whatever save is.
gen_clone_always(save) == <<[stmt |-> "clone"]>>

\* gen_clone, lines 408-419.
gen_clone(save) == IF save THEN <<[stmt |-> "clone"]>> ELSE <<>>

\* gen_model_param, lines 539-543.
gen_model_param(init_parameters) == [tuple |-> init_parameters]

\* gen_relm_component_type, lines 545-550.
gen_relm_component_type(name) == [segments |-> <<"relm", "Component">>, args |-> <<name>>]

\* One setter call of gen_set_prop_calls, lines 50-55.
set_prop_call(ident, key, value) ==
    [stmt |-> "set_property", ident |-> ident, func |-> <<"set_", key>>,
     value |-> fold_expr(value)]

\* gen_set_prop_calls!, lines 44-65.
gen_set_prop_calls(widget, ident) ==
    LET calls == [i \in 1..Len(widget.properties) |->
                    set_prop_call(ident, widget.properties[i].key, widget.properties[i].value)]
    IN  [properties         |-> SelectSeq(calls, LAMBDA c : c.func # <<"set_", "visible">>),
         visible_properties |-> SelectSeq(calls, LAMBDA c : c.func = <<"set_", "visible">>)]

\* One setter call of gen_set_child_prop_calls, lines 559-582.
set_child_prop_call(widget, parent, parent_widget_type, widget_type, key, value) ==
    [stmt   |-> "set_child_property",
     parent |-> [name |-> parent,
                 access |-> IF parent_widget_type = "IsGtk" THEN "direct" ELSE "container"],
     func   |-> <<"set_child_", key>>,
     child  |-> [name |-> widget.name,
                 access |-> IF widget_type = "IsGtk" THEN "direct" ELSE "root"],
     value  |-> value]

\* gen_set_child_prop_calls, lines 552-586.
gen_set_child_prop_calls(widget, parent, parent_widget_type, widget_type) ==
    IF parent # None
    THEN [i \in 1..Len(widget.child_properties) |->
            set_child_prop_call(widget, parent[1], parent_widget_type, widget_type,
                                widget.child_properties[i].key,
                                widget.child_properties[i].value)]
    ELSE <<>>

\* gen_widget_type, lines 421-436; relm_name.unwrap() panics on None.
gen_widget_type(widget) ==
    IF widget.widget.tag = "Gtk"
    THEN IF widget.widget.relm_name = None
         THEN [panic |-> Some([message |-> "called Option::unwrap on a None value"])]
         ELSE [panic |-> None, tokens |-> widget.widget.relm_name[1]]
    ELSE [panic |-> None, tokens |-> widget.typ]

(***************************************************************************)
(* The Generator's methods.  A method that may panic returns               *)
(* [self, panic]: the Generator as the method left it and the panic, if    *)
(* any.                                                                    *)
(***************************************************************************)
Ok(self) == [self |-> self, panic |-> None]

Panic(self, payload) == [self |-> self, panic |-> Some(payload)]

\* unreachable!()
Unreachable == [message |-> "internal error: entered unreachable code"]

\* The attribute named by set_container!'s panic, lines 71-77.
container_attribute(container_type) ==
    IF container_type # None
    THEN <<"#[container=", container_type[1], "]">>
    ELSE <<"#[container]">>

\* set_container! without the contains_key test of line 70.
set_container_unchecked(self, widget, widget_name, widget_type) ==
    IF widget.container_type # None
    THEN Ok([self EXCEPT
                !.relm_widgets = MapInsert(@, widget_name, widget_type),
                !.container_names =
                    MapInsert(@, widget.container_type[1],
                              [name |-> widget_name, typ |-> widget_type])])
    ELSE Ok(self)

\* set_container! without the relm_widgets insert of line 80.
set_container_unsaved(self, widget, widget_name, widget_type) ==
    IF widget.container_type # None
    THEN LET container_type == widget.container_type[1]
         IN  IF container_type \in DOMAIN self.container_names
             THEN Panic(self, [message   |-> "Cannot use the {} attribute twice in the same widget",
                               attribute |-> container_attribute(container_type)])
             ELSE Ok([self EXCEPT
                        !.container_names =
                            MapInsert(@, container_type,
                                      [name |-> widget_name, typ |-> widget_type])])
    ELSE Ok(self)

\* set_container!, lines 67-84.
set_container(self, widget, widget_name, widget_type) ==
    IF widget.container_type # None
    THEN LET container_type == widget.container_type[1]
         IN  IF container_type \in DOMAIN self.container_names
             THEN Panic(self, [message   |-> "Cannot use the {} attribute twice in the same widget",
                               attribute |-> container_attribute(container_type)])
             ELSE Ok([self EXCEPT
                        !.relm_widgets = MapInsert(@, widget_name, widget_type),
                        !.container_names =
                            MapInsert(@, container_type,
                                      [name |-> widget_name, typ |-> widget_type])])
    ELSE Ok(self)

\* add_child_or_show_all storing the root fields for a widget with a parent too.
add_child_or_show_all_any(widget, parent, parent_widget_type) ==
    [tokens |-> IF parent # None
                THEN <<[stmt   |-> "add",
                        trait  |-> IF parent_widget_type = "IsGtk"
                                   THEN "::gtk::ContainerExt" ELSE "::relm::RelmContainer",
                        parent |-> parent[1],
                        child  |-> widget.name]>>
                ELSE <<>>,
     root   |-> Some([root_widget_type |-> [typ |-> widget.typ, access |-> "direct"],
                      root_widget      |-> widget.name,
                      root_widget_expr |-> [name |-> widget.name, access |-> "direct"]])]

\* Generator::add_child_or_show_all, lines 150-179: the tokens and the root
\* fields stored into the driver, if any.
add_child_or_show_all(widget, parent, parent_widget_type) ==
    IF parent # None
    THEN [tokens |-> <<[stmt   |-> "add",
                        trait  |-> IF parent_widget_type = "IsGtk"
                                   THEN "::gtk::ContainerExt" ELSE "::relm::RelmContainer",
                        parent |-> parent[1],
                        child  |-> widget.name]>>,
          root   |-> None]
    ELSE [tokens |-> <<>>,
          root   |-> Some([root_widget_type |-> [typ |-> widget.typ, access |-> "direct"],
                           root_widget      |-> widget.name,
                           root_widget_expr |-> [name |-> widget.name, access |-> "direct"]])]

\* Generator::add_or_create_widget, lines 181-218.
add_or_create_widget(parent, parent_widget_type, widget_name, widget_type_ident, init_parameters) ==
    IF parent # None
    THEN [tokens |-> <<[stmt |-> "let", name |-> widget_name,
                        init |-> [call   |-> IF parent_widget_type = "IsGtk"
                                             THEN "::relm::ContainerWidget::add_widget"
                                             ELSE "::relm::RelmContainer::add_widget",
                                  typ    |-> widget_type_ident,
                                  parent |-> parent,
                                  params |-> gen_model_param(init_parameters)]]>>,
          root   |-> None]
    ELSE [tokens |-> <<[stmt |-> "let", name |-> widget_name,
                        init |-> [call   |-> "::relm::create_component",
                                  typ    |-> widget_type_ident,
                                  parent |-> None,
                                  params |-> gen_model_param(init_parameters)]]>>,
          root   |-> Some([root_widget_type |-> [typ |-> widget_type_ident, access |-> "Root"],
                           root_widget      |-> widget_name,
                           root_widget_expr |-> [name |-> widget_name,
                                                 access |-> "widget().root()"]])]

\* The match of Generator::collect_event, lines 225-245: the connect! call,
\* or None where the match arm is unreachable!().
event_connect(widget_name, name, event) ==
    LET value == event.value
        head  == [stmt |-> "connect", widget |-> widget_name,
                  event |-> <<"connect_", name>>, params |-> event.params]
    IN  CASE value.target = "CurrentWidget" /\ value.ret.kind = "WithoutReturn" ->
                Some(head @@ [form |-> "relm", value |-> value.ret.value])
          [] value.target = "ForeignWidget" /\ value.ret.kind = "WithoutReturn" ->
                Some(head @@ [form |-> "foreign", foreign |-> value.widget,
                              value |-> value.ret.value])
          [] value.target = "CurrentWidget" /\ value.ret.kind = "Return" ->
                Some(head @@ [form |-> "relm_return", value |-> value.ret.value,
                              return_value |-> value.ret.return_value])
          [] value.target = "CurrentWidget" /\ value.ret.kind = "CallReturn" ->
                Some(head @@ [form |-> "relm_call", model |-> gen_model_ident(event),
                              func |-> value.ret.func])
          [] OTHER -> None

\* Generator::collect_event, lines 220-247.
collect_event(self, widget_name, save, name, event) ==
    LET clone   == gen_clone(save)
        connect == event_connect(widget_name, name, event)
    IN  IF connect = None
        THEN Panic(self, Unreachable)
        ELSE Ok([self EXCEPT !.events =
                    Append(@, [stmt |-> "block", body |-> clone \o connect])])

RECURSIVE collect_event_loop(_, _)
\* The for loops of collect_events: collect_event on each item in turn, up to
\* the first panic.
collect_event_loop(self, items) ==
    IF items = <<>>
    THEN Ok(self)
    ELSE LET r == collect_event(self, Head(items).widget_name, Head(items).save,
                                Head(items).name, Head(items).event)
         IN  IF r.panic # None THEN r ELSE collect_event_loop(r.self, Tail(items))

\* Generator::collect_events, lines 249-258.
collect_events(self, widget, gtk_widget) ==
    LET widget_name == widget.name
        own   == [i \in 1..Len(gtk_widget.events) |->
                    [widget_name |-> <<widget_name>>, save |-> gtk_widget.save,
                     name |-> gtk_widget.events[i].name,
                     event |-> gtk_widget.events[i].event]]
        child == [i \in 1..Len(gtk_widget.child_events) |->
                    [widget_name |-> <<widget_name, "get_", gtk_widget.child_events[i].child_name>>,
                     save |-> FALSE,
                     name |-> gtk_widget.child_events[i].name,
                     event |-> gtk_widget.child_events[i].event]]
    IN  collect_event_loop(self, own \o child)

\* collect_relm_events' match connecting a binding with a return like one
\* without.
relm_event_connect_degrading(widget_name, name, event) ==
    LET value == event.value
        head  == [stmt |-> "connect", widget |-> <<widget_name>>, event |-> name,
                  params |-> IF event.params = <<>> THEN None ELSE Some(event.params),
                  model |-> gen_model_ident(event)]
    IN  CASE value.target = "CurrentWidget" /\ value.ret.kind = "WithoutReturn" ->
                Some(head @@ [form |-> "stream_relm", value |-> value.ret.value])
          [] value.target = "CurrentWidget" /\ value.ret.kind = "Return" ->
                Some(head @@ [form |-> "stream_relm", value |-> value.ret.value])
          [] value.target = "ForeignWidget" /\ value.ret.kind = "WithoutReturn" ->
                Some(head @@ [form |-> "stream_foreign", foreign |-> value.widget,
                              value |-> value.ret.value])
          [] OTHER -> None

\* The match of Generator::collect_relm_events, lines 265-292: the connect!
\* call, or None where the match arm is unreachable!().
relm_event_connect(widget_name, name, event) ==
    LET value == event.value
        head  == [stmt |-> "connect", widget |-> <<widget_name>>, event |-> name,
                  params |-> IF event.params = <<>> THEN None ELSE Some(event.params),
                  model |-> gen_model_ident(event)]
    IN  CASE value.target = "CurrentWidget" /\ value.ret.kind = "WithoutReturn" ->
                Some(head @@ [form |-> "stream_relm", value |-> value.ret.value])
          [] value.target = "ForeignWidget" /\ value.ret.kind = "WithoutReturn" ->
                Some(head @@ [form |-> "stream_foreign", foreign |-> value.widget,
                              value |-> value.ret.value])
          [] OTHER -> None

RECURSIVE collect_relm_event_loop(_, _, _)
\* The inner for loop of collect_relm_events, lines 264-294, up to the first
\* panic.
collect_relm_event_loop(self, widget_name, items) ==
    IF items = <<>>
    THEN Ok(self)
    ELSE LET clone   == gen_clone(TRUE)
             connect == relm_event_connect(widget_name, Head(items).name, Head(items).event)
         IN  IF connect = None
             THEN Panic(self, Unreachable)
             ELSE collect_relm_event_loop(
                      [self EXCEPT !.events =
                          Append(@, [stmt |-> "block", body |-> clone \o connect])],
                      widget_name, Tail(items))

\* Generator::collect_relm_events, lines 260-296: the events of every name, in
\* the order the two nested loops meet them.
collect_relm_events(self, widget, relm_widget) ==
    collect_relm_event_loop(
        self, widget.name,
        Concat([i \in 1..Len(relm_widget.events) |->
                  [j \in 1..Len(relm_widget.events[i].events) |->
                      [name  |-> relm_widget.events[i].name,
                       event |-> relm_widget.events[i].events[j]]]]))

(***************************************************************************)
(* The Container trait implementation.                                     *)
(***************************************************************************)
\* The iteration orders a HashMap with these keys can have.
Orders(keys) ==
    {o \in [1..Cardinality(keys) -> keys] : \A i, j \in DOMAIN o : o[i] = o[j] => i = j}

\* The body both kinds of branch share, lines 443-458.
container_branch(entry) ==
    LET first_type_part == entry.typ.segments[1]
    IN  [trait  |-> IF first_type_part = "gtk"
                    THEN "::gtk::ContainerExt" ELSE "::relm::RelmContainer",
         name   |-> entry.name,
         upcast |-> IF first_type_part = "gtk" THEN "clone()" ELSE "widget().root()"]

RECURSIVE add_widget_loop(_, _, _)
\* The for loop of gen_add_widget_method, lines 442-484, over the entries in
\* iteration order; acc is [default_container, other_containers].
add_widget_loop(container_names, order, acc) ==
    IF order = <<>>
    THEN acc
    ELSE LET parent_id == Head(order)
             body      == container_branch(container_names[parent_id])
         IN  add_widget_loop(
                 container_names, Tail(order),
                 IF parent_id = None
                 THEN [acc EXCEPT !.default_container = <<[keyword |-> "", body |-> body]>>]
                 ELSE [acc EXCEPT !.other_containers =
                          Append(@, [keyword   |-> IF @ = <<>> THEN "if" ELSE "else if",
                                     parent_id |-> Some(parent_id[1]),
                                     body      |-> body])])

\* gen_add_widget_method emitting the default branch where the iteration meets it.
gen_add_widget_method_in_order(container_names, order) ==
    IF Cardinality(DOMAIN container_names) > 1
    THEN <<[stmt |-> "fn add_widget",
            branches |->
                [i \in DOMAIN order |->
                    IF order[i] = None
                    THEN [keyword |-> IF i = 1 THEN "" ELSE "else",
                          body |-> container_branch(container_names[order[i]])]
                    ELSE [keyword   |-> IF i = 1 THEN "if" ELSE "else if",
                          parent_id |-> Some(order[i][1]),
                          body      |-> container_branch(container_names[order[i]])]]]>>
    ELSE <<>>

\* gen_add_widget_method, lines 438-503: the branches of add_widget in the
\* order they are emitted, or no method at all.
gen_add_widget_method(container_names, order) ==
    IF Cardinality(DOMAIN container_names) > 1
    THEN LET loop == add_widget_loop(container_names, order,
                                     [default_container |-> <<>>, other_containers |-> <<>>])
             default_container ==
                 IF loop.other_containers # <<>>
                 THEN [i \in DOMAIN loop.default_container |->
                          [loop.default_container[i] EXCEPT !.keyword = "else"]]
                 ELSE loop.default_container
         IN  <<[stmt |-> "fn add_widget",
                branches |-> loop.other_containers \o default_container]>>
    ELSE <<>>

\* gen_container_impl without the test of line 511: a registry without the
\* default container yields no implementation.
gen_container_impl_lenient(self, widget, generic_types, order) ==
    LET widget_type == gen_widget_type(widget)
    IN  IF widget_type.panic # None
        THEN [panic |-> widget_type.panic]
        ELSE IF None \notin DOMAIN self.container_names
        THEN [panic |-> None, tokens |-> <<>>]
        ELSE [panic |-> None,
              tokens |-> <<[stmt       |-> "impl Container",
                            generics   |-> generic_types,
                            for        |-> widget_type.tokens,
                            Container  |-> self.container_names[None].typ,
                            container  |-> self.container_names[None].name,
                            add_widget |-> gen_add_widget_method(self.container_names, order)]>>]

\* gen_container_impl, lines 505-537, for one iteration order of the registry.
gen_container_impl(self, widget, generic_types, order) ==
    LET widget_type == gen_widget_type(widget)
    IN  IF widget_type.panic # None
        THEN [panic |-> widget_type.panic]
        ELSE IF DOMAIN self.container_names = {}
        THEN [panic |-> None, tokens |-> <<>>]
        ELSE IF None \notin DOMAIN self.container_names
        THEN [panic |-> Some([message |->
                "Use of #[container=name] attribute without the default #[container]."])]
        ELSE [panic |-> None,
              tokens |-> <<[stmt       |-> "impl Container",
                            generics   |-> generic_types,
                            for        |-> widget_type.tokens,
                            Container  |-> self.container_names[None].typ,
                            container  |-> self.container_names[None].name,
                            add_widget |-> gen_add_widget_method(self.container_names, order)]>>]

(***************************************************************************)
(* The walk.                                                               *)
(***************************************************************************)
Top == stack[Len(stack)]

\* A call of Generator::widget is about to be made: gen's, line 95, or the
\* next child's, lines 313-315 and 345-347.
CallPending ==
    /\ pc = "walk"
    /\ IF stack = <<>>
       THEN TRUE
       ELSE Len(Top.children) < Len(Children(tree, Top.node))

\* The widget the pending call is made on.
Callee == IF stack = <<>> THEN 1 ELSE Children(tree, Top.node)[Len(Top.children) + 1]

\* The pending call's parent argument.
CalleeParent == IF stack = <<>> THEN None ELSE Some(tree[Top.node].name)

\* The pending call's parent_widget_type argument.
CalleeParentType ==
    IF stack = <<>> \/ tree[Top.node].widget.tag = "Gtk" THEN "IsGtk" ELSE "IsRelm"

\* The first half of a call: r is what the method did before its children.
Enter(r) ==
    /\ generator' = r.self
    /\ IF r.panic # None
       THEN /\ pc' = "panic"
            /\ panic' = Some(r.panic[1] @@ [node |-> Callee])
            /\ UNCHANGED stack
       ELSE /\ stack' = Append(stack, [node               |-> Callee,
                                       parent             |-> CalleeParent,
                                       parent_widget_type |-> CalleeParentType,
                                       children           |-> <<>>])
            /\ UNCHANGED <<pc, panic>>
    /\ UNCHANGED <<tree, driver, widget_tokens, code, result, root_writes, remover_calls>>

\* The second half of a call: the tokens go to the caller, the root fields
\* stored on the way into the driver.
Return(tokens, root, folded) ==
    /\ IF Len(stack) = 1
       THEN /\ widget_tokens' = tokens
            /\ stack' = <<>>
            /\ pc' = "assemble"
       ELSE /\ stack' = [SubSeq(stack, 1, Len(stack) - 1) EXCEPT
                            ![Len(stack) - 1].children = Append(@, tokens)]
            /\ UNCHANGED <<widget_tokens, pc>>
    /\ IF root # None
       THEN /\ driver' = [driver EXCEPT !.root_widget_type = Some(root[1].root_widget_type),
                                        !.root_widget      = Some(root[1].root_widget),
                                        !.root_widget_expr = Some(root[1].root_widget_expr)]
            /\ root_writes' = Append(root_writes, Top.node)
       ELSE UNCHANGED <<driver, root_writes>>
    /\ remover_calls' = remover_calls \o folded
    /\ UNCHANGED <<tree, generator, code, result, panic>>

\* The values gen_set_prop_calls! hands to the Remover, lines 49-51.
Folded(widget) ==
    [i \in 1..Len(widget.properties) |->
        [widget |-> widget.name, list |-> "properties", key |-> widget.properties[i].key]]

\* Generator::gtk_widget up to its children, lines 298-311.
gtk_widget_enter(self, widget, gtk_widget) ==
    LET r == set_container(self, widget, widget.name, widget.typ)
    IN  IF r.panic # None
        THEN r
        ELSE LET pushed == [r.self EXCEPT !.widget_names = Append(@, widget.name)]
                 saved  == IF gtk_widget.save
                           THEN [pushed EXCEPT !.relm_widgets =
                                    MapInsert(@, widget.name, widget.typ)]
                           ELSE pushed
             IN  collect_events(saved, widget, gtk_widget)

\* gtk_widget's tokens with the visible setters next to the other setters, as
\* relm_widget has them.
gtk_widget_tokens_visible_first(widget, children, add_child_or_show_all_tokens, props, child_properties) ==
    <<[stmt |-> "let", name |-> widget.name, typ |-> widget.typ,
       init |-> gen_construct_widget(widget)]>>
    \o props.properties
    \o props.visible_properties
    \o Concat(children)
    \o add_child_or_show_all_tokens
    \o <<[stmt |-> "show", name |-> widget.name]>>
    \o child_properties

\* gtk_widget's tokens with the add call right after the let statement.
gtk_widget_tokens_add_first(widget, children, add_child_or_show_all_tokens, props, child_properties) ==
    <<[stmt |-> "let", name |-> widget.name, typ |-> widget.typ,
       init |-> gen_construct_widget(widget)]>>
    \o add_child_or_show_all_tokens
    \o props.properties
    \o Concat(children)
    \o <<[stmt |-> "show", name |-> widget.name]>>
    \o props.visible_properties
    \o child_properties

\* The tokens Generator::gtk_widget returns, lines 322-330.
gtk_widget_tokens(widget, children, add_child_or_show_all_tokens, props, child_properties) ==
    <<[stmt |-> "let", name |-> widget.name, typ |-> widget.typ,
       init |-> gen_construct_widget(widget)]>>
    \o props.properties
    \o Concat(children)
    \o add_child_or_show_all_tokens
    \o <<[stmt |-> "show", name |-> widget.name]>>
    \o props.visible_properties
    \o child_properties

\* Generator::relm_widget up to its children, lines 333-343.
relm_widget_enter(self, widget, relm_widget) ==
    LET pushed == [self EXCEPT !.widget_names = Append(@, widget.name)]
        r      == set_container(pushed, widget, widget.name, widget.typ)
    IN  IF r.panic # None
        THEN r
        ELSE collect_relm_events(
                 [r.self EXCEPT !.relm_widgets =
                     MapInsert(@, widget.name, gen_relm_component_type(widget.typ))],
                 widget, relm_widget)

\* The tokens Generator::relm_widget returns, lines 355-361.
relm_widget_tokens(widget, children, add_or_create_widget_tokens, props, child_properties) ==
    add_or_create_widget_tokens
    \o props.properties
    \o props.visible_properties
    \o Concat(children)
    \o child_properties

GtkWidgetEnter ==
    /\ CallPending
    /\ tree[Callee].widget.tag = "Gtk"
    /\ Enter(gtk_widget_enter(generator, tree[Callee], tree[Callee].widget))

RelmWidgetEnter ==
    /\ CallPending
    /\ tree[Callee].widget.tag = "Relm"
    /\ Enter(relm_widget_enter(generator, tree[Callee], tree[Callee].widget))

\* Every child of the running call has returned.
ChildrenDone ==
    /\ pc = "walk"
    /\ stack # <<>>
    /\ Len(Top.children) = Len(Children(tree, Top.node))

\* Generator::gtk_widget from line 317 to its return.
GtkWidgetExit ==
    /\ ChildrenDone
    /\ tree[Top.node].widget.tag = "Gtk"
    /\ LET widget == tree[Top.node]
           add    == add_child_or_show_all(widget, Top.parent, Top.parent_widget_type)
           props  == gen_set_prop_calls(widget, [name |-> widget.name, access |-> "direct"])
           child_properties ==
               gen_set_child_prop_calls(widget, Top.parent, Top.parent_widget_type, "IsGtk")
       IN  Return(gtk_widget_tokens(widget, Top.children, add.tokens, props, child_properties),
                  add.root, Folded(widget))

\* Generator::relm_widget from line 348 to its return.
RelmWidgetExit ==
    /\ ChildrenDone
    /\ tree[Top.node].widget.tag = "Relm"
    /\ LET widget == tree[Top.node]
           props  == gen_set_prop_calls(widget, [name |-> widget.name, access |-> "widget_mut()"])
           create == add_or_create_widget(Top.parent, Top.parent_widget_type, widget.name,
                                          widget.typ, widget.init_parameters)
           child_properties ==
               gen_set_child_prop_calls(widget, Top.parent, Top.parent_widget_type, "IsRelm")
       IN  Return(relm_widget_tokens(widget, Top.children, create.tokens, props, child_properties),
                  create.root, Folded(widget))

(***************************************************************************)
(* gen after the walk.                                                     *)
(***************************************************************************)
\* widget_names1 without the root test of line 102.
widget_names1_with_root(self, idents, root_widget_name) ==
    SelectSeq(self.widget_names,
              LAMBDA ident : ident \in idents \/ ident \in DOMAIN self.relm_widgets)

\* The fields of the component value, lines 97-105 and 113-117.
widget_names1(self, idents, root_widget_name) ==
    SelectSeq(self.widget_names,
              LAMBDA ident : /\ (ident \in idents \/ ident \in DOMAIN self.relm_widgets)
                             /\ ident # root_widget_name)

\* gen's quote! with the events spliced right after the widgets' tokens.
gen_code_events_early(tokens, root_widget_name, names, events) ==
    tokens
    \o events
    \o <<[stmt |-> "let self", fields |-> <<root_widget_name>> \o names]>>
    \o <<[stmt |-> "downgrade"],
         [stmt |-> "destructure", fields |-> <<root_widget_name>> \o names]>>
    \o <<[stmt |-> "self"]>>

\* The quote! of gen, lines 110-126, as one statement list.
gen_code(tokens, root_widget_name, names, events) ==
    tokens
    \o <<[stmt |-> "let self", fields |-> <<root_widget_name>> \o names]>>
    \o <<[stmt |-> "downgrade"],
         [stmt |-> "destructure", fields |-> <<root_widget_name>> \o names]>>
    \o events
    \o <<[stmt |-> "self"]>>

\* gen, lines 96-126.
Assemble ==
    /\ pc = "assemble"
    /\ IF driver.root_widget = None
       THEN /\ pc' = "panic"
            /\ panic' = Some([message |-> "root_widget is None", node |-> 0])
            /\ UNCHANGED code
       ELSE /\ pc' = "container_impl"
            /\ code' = Some(gen_code(widget_tokens, driver.root_widget[1],
                                     widget_names1(generator, driver.widgets,
                                                   driver.root_widget[1]),
                                     generator.events))
            /\ UNCHANGED panic
    /\ UNCHANGED <<tree, stack, generator, driver, widget_tokens, result, root_writes,
                   remover_calls>>

\* gen, lines 127-128.
ContainerImpl ==
    /\ pc = "container_impl"
    /\ \E order \in Orders(DOMAIN generator.container_names) :
          LET container_impl ==
                  IF driver.generic_types = None
                  THEN [panic |-> Some([message |-> "generic types"])]
                  ELSE gen_container_impl(generator, tree[1], driver.generic_types[1], order)
          IN  IF container_impl.panic # None
              THEN /\ pc' = "panic"
                   /\ panic' = Some(container_impl.panic[1] @@ [node |-> 0])
                   /\ UNCHANGED result
              ELSE /\ pc' = "done"
                   /\ result' = Some([code           |-> code[1],
                                      relm_widgets   |-> generator.relm_widgets,
                                      container_impl |-> container_impl.tokens])
                   /\ UNCHANGED panic
    /\ UNCHANGED <<tree, stack, generator, driver, widget_tokens, code, root_writes,
                   remover_calls>>

Next ==
    \/ GtkWidgetEnter
    \/ RelmWidgetEnter
    \/ GtkWidgetExit
    \/ RelmWidgetExit
    \/ Assemble
    \/ ContainerImpl

(***************************************************************************)
(* Inputs.                                                                 *)
(***************************************************************************)
\* EventValueReturn and EventValue, from the parser.
WithoutReturn(value) == [kind |-> "WithoutReturn", value |-> value]

Return_(value, return_value) ==
    [kind |-> "Return", value |-> value, return_value |-> return_value]

CallReturn(func) == [kind |-> "CallReturn", func |-> func]

CurrentWidget(ret) == [target |-> "CurrentWidget", ret |-> ret]

ForeignWidget(widget, ret) == [target |-> "ForeignWidget", widget |-> widget, ret |-> ret]

\* The signal names of a widget's events, each name bound once.
EventNames == <<"clicked", "delete_event", "activate", "toggled">>

\* A widget's parser fields that gen reads but the tree shape does not fix.
Profile(kind, container_type, save, properties, child_properties, init_parameters, events, child_events) ==
    [kind |-> kind, container_type |-> container_type, save |-> save,
     properties |-> properties, child_properties |-> child_properties,
     init_parameters |-> init_parameters, events |-> events, child_events |-> child_events]

\* A widget with nothing declared on it.
Plain(kind) == Profile(kind, None, FALSE, <<>>, <<>>, <<>>, <<>>, <<>>)

\* The i-th widget of a tree, below parent, with profile f.  A Gtk widget binds
\* each event to a signal of its own; a Relm widget binds the first event to one
\* message and the others to a second one.
MkWidget(i, parent, f) ==
    [name   |-> i,
     typ    |-> IF f.kind = "Gtk" THEN Path(<<"gtk", "Box">>) ELSE Path(<<"Comp">>),
     parent |-> parent,
     widget |-> IF f.kind = "Gtk"
                THEN [tag          |-> "Gtk",
                      events       |-> [k \in 1..Len(f.events) |->
                                           [name |-> EventNames[k], event |-> f.events[k]]],
                      child_events |-> f.child_events,
                      save         |-> f.save,
                      relm_name    |-> IF parent = 0 THEN Some(<<"Win">>) ELSE None]
                ELSE [tag    |-> "Relm",
                      events |-> IF f.events = <<>>
                                 THEN <<>>
                                 ELSE <<[name |-> "Quit", events |-> <<Head(f.events)>>]>>
                                      \o IF Len(f.events) > 1
                                         THEN <<[name |-> "Changed", events |-> Tail(f.events)]>>
                                         ELSE <<>>],
     properties       |-> f.properties,
     child_properties |-> f.child_properties,
     init_parameters  |-> f.init_parameters,
     container_type   |-> f.container_type]

\* The tree of shape p whose i-th widget has profile f[i].
MkTree(p, f) == [i \in DOMAIN p |-> MkWidget(i, p[i], f[i])]

\* The state gen starts from: Generator::new, lines 140-148, and a Driver whose
\* root fields are still unset and whose widgets map has the keys widgets.
StartWith(widgets) ==
    /\ pc = "walk"
    /\ stack = <<>>
    /\ generator = [container_names |-> EmptyMap, events |-> <<>>,
                    relm_widgets |-> EmptyMap, widget_names |-> <<>>]
    /\ driver = [root_widget |-> None, root_widget_type |-> None,
                 root_widget_expr |-> None, widgets |-> widgets,
                 generic_types |-> Some(<<>>)]
    /\ widget_tokens = <<>>
    /\ code = None
    /\ result = None
    /\ panic = None
    /\ root_writes = <<>>
    /\ remover_calls = <<>>

\* The start with a Driver that knows no widget.
Start == StartWith({})

\* Trees of widgets of either kind, each declaring no container, the default
\* one or a named one.
ContainerProfiles ==
    {Profile(kind, container_type, FALSE, <<>>, <<>>, <<>>, <<>>, <<>>) :
        kind \in {"Gtk", "Relm"},
        container_type \in {None, Some(None), Some(Some("left")), Some(Some("right"))}}

Init ==
    /\ \E n \in 1..MaxNodes : \E p \in Shapes(n) : \E f \in [1..n -> ContainerProfiles] :
          tree = MkTree(p, f)
    /\ Start

Spec == Init /\ [][Next]_vars

\* The widgets' kinds being k, the tree of shape p whose widget s has profile f
\* and whose other widgets declare nothing.
MkSubjectTree(p, k, s, f) == MkTree(p, [i \in DOMAIN p |-> IF i = s THEN f ELSE Plain(k[i])])

\* Property values, the first two with marker syntax in them.
LabelValue == <<Marker, "text">>

VisibleValue == <<"model", Marker, "shown">>

ExpandValue == <<Marker, "fill">>

PropertyLists ==
    LET visible == [key |-> "visible", value |-> VisibleValue]
        label   == [key |-> "label", value |-> LabelValue]
    IN  {<<>>, <<visible>>, <<label>>, <<visible, label>>, <<label, visible>>}

ChildPropertyLists == {<<>>, <<[key |-> "expand", value |-> ExpandValue]>>}

InitParameterLists == {<<>>, <<"a">>, <<"a", "b">>, <<"b", "a">>}

\* Trees in which one widget has properties, child properties and
\* init_parameters.
InitProps ==
    /\ \E n \in 1..MaxNodes : \E p \in Shapes(n) : \E k \in [1..n -> {"Gtk", "Relm"}] :
       \E s \in 1..n :
       \E properties \in PropertyLists : \E child_properties \in ChildPropertyLists :
       \E init_parameters \in InitParameterLists :
          tree = MkSubjectTree(p, k, s,
                               Profile(k[s], None, FALSE, properties, child_properties,
                                       init_parameters, <<>>, <<>>))
    /\ Start

SpecProps == InitProps /\ [][Next]_vars

\* Largest number of events bound on one widget.
MaxEvents == 2

\* The shapes of an event binding.
EventShapes ==
    {[params |-> <<>>, use_self |-> FALSE,
      value |-> CurrentWidget(WithoutReturn("Msg"))],
     [params |-> <<"x">>, use_self |-> FALSE,
      value |-> ForeignWidget(1, WithoutReturn("Other"))],
     [params |-> <<"_", "_">>, use_self |-> FALSE,
      value |-> CurrentWidget(Return_("Quit", "Inhibit"))],
     [params |-> <<>>, use_self |-> TRUE,
      value |-> CurrentWidget(CallReturn("func"))],
     [params |-> <<>>, use_self |-> FALSE,
      value |-> ForeignWidget(1, CallReturn("func"))]}

EventLists == UNION {[1..n -> EventShapes] : n \in 0..MaxEvents}

ChildEventLists ==
    {<<>>, <<[child_name |-> "tab", name |-> "clicked",
              event |-> [params |-> <<>>, use_self |-> FALSE,
                         value |-> CurrentWidget(WithoutReturn("Msg"))]]>>}

\* The tree of buttons-derive's view!, cut to a Gtk root with two Gtk buttons,
\* each binding clicked to a message of the enclosing component.
ButtonsTree ==
    LET button == Profile("Gtk", None, FALSE, <<>>, <<>>, <<>>,
                          <<[params |-> <<>>, use_self |-> FALSE,
                             value |-> CurrentWidget(WithoutReturn("Msg"))]>>, <<>>)
    IN  MkTree(<<0, 1, 1>>, <<Plain("Gtk"), button, button>>)

\* Trees in which one widget binds events, the other widgets being all of one
\* kind; and ButtonsTree.
InitEvents ==
    /\ \/ \E n \in 1..MaxNodes : \E p \in Shapes(n) : \E others \in {"Gtk", "Relm"} :
          \E s \in 1..n : \E kind \in {"Gtk", "Relm"} :
          \E save \in BOOLEAN : \E events \in EventLists : \E child_events \in ChildEventLists :
             /\ kind = "Relm" => ~save /\ child_events = <<>>
             /\ tree = MkSubjectTree(p, [i \in 1..n |-> others], s,
                                     Profile(kind, None, save, <<>>, <<>>, <<>>, events,
                                             child_events))
       \/ tree = ButtonsTree
    /\ Start

SpecEvents == InitEvents /\ [][Next]_vars

(***************************************************************************)
(* Properties.                                                             *)
(***************************************************************************)
Nodes == 1..Len(tree)

\* The walk has returned to gen.
WalkDone == pc \in {"assemble", "container_impl", "done"} \/ (pc = "panic" /\ panic[1].node = 0)

\* The widgets Generator::widget has been called on.
Entered ==
    {i \in Nodes : \E k \in 1..Len(generator.widget_names) :
                      generator.widget_names[k] = tree[i].name}
    \cup (IF pc = "panic" /\ panic[1].node # 0 THEN {panic[1].node} ELSE {})

\* The widgets whose call registered what they declare.
Registered == {i \in Entered : ~(pc = "panic" /\ panic[1].node = i)}

\* C1: the driver's root fields are stored at most once, only by the
\* parentless widget; when the walk is over they have been stored exactly
\* once, root_widget is that widget's name, and gen's read of the root did
\* not fail.
RootRecordedOnce ==
    /\ Len(root_writes) <= 1
    /\ \A k \in 1..Len(root_writes) : tree[root_writes[k]].parent = 0
    /\ WalkDone =>
          /\ Len(root_writes) = 1
          /\ driver.root_widget = Some(tree[1].name)
          /\ driver.root_widget_type # None
          /\ driver.root_widget_expr # None
    /\ pc = "panic" => panic[1].message # "root_widget is None"
    /\ ~WalkDone => root_writes = <<>> /\ driver.root_widget = None

\* C1's case: a tree of three widgets, one of them Relm, one Gtk, compiled.
RootRecordedOnceWitness ==
    /\ pc = "done"
    /\ Len(tree) = 3
    /\ \E i, j \in 2..3 : tree[i].widget.tag = "Gtk" /\ tree[j].widget.tag = "Relm"
    /\ root_writes = <<1>>

\* Widgets i and j declare the same container discriminant.
SameDiscriminant(i, j) ==
    /\ tree[i].container_type # None
    /\ tree[i].container_type = tree[j].container_type

\* C4: a widget that declares a discriminant an earlier widget declares makes
\* the walk panic, when it is visited, with the attribute-twice message; a
\* tree with two such widgets never compiles; every registry entry belongs to
\* the one visited widget that declares its discriminant.
DuplicateDiscriminantPanics ==
    /\ \A j \in Entered :
          (\E i \in 1..(j - 1) : SameDiscriminant(i, j)) =>
              /\ pc = "panic"
              /\ panic[1].node = j
              /\ panic[1].message = "Cannot use the {} attribute twice in the same widget"
              /\ panic[1].attribute = container_attribute(tree[j].container_type[1])
    /\ (\E i, j \in Nodes : i # j /\ SameDiscriminant(i, j)) => ~WalkDone /\ result = None
    /\ \A i, j \in Registered : SameDiscriminant(i, j) => i = j
    /\ \A i \in Registered :
          tree[i].container_type # None =>
              /\ tree[i].container_type[1] \in DOMAIN generator.container_names
              /\ generator.container_names[tree[i].container_type[1]].name = tree[i].name
    /\ \A k \in DOMAIN generator.container_names :
          \E i \in Registered : tree[i].container_type = Some(k)

\* C4's case: the walk has panicked on the second widget that declares a
\* discriminant, the two widgets being of different kinds.
DuplicateDiscriminantWitness ==
    /\ pc = "panic"
    /\ panic[1].node # 0
    /\ \E i \in 1..(panic[1].node - 1) :
          /\ SameDiscriminant(i, panic[1].node)
          /\ tree[i].widget.tag # tree[panic[1].node].widget.tag

\* Some widget declares a named container and none the default one.
NamedWithoutDefault ==
    /\ \E i \in Nodes : tree[i].container_type # None /\ tree[i].container_type[1] # None
    /\ \A i \in Nodes : tree[i].container_type # Some(None)

AddWidget == result[1].container_impl[1].add_widget

\* C7: with the default container and named ones registered, add_widget has
\* one conditional branch for each named entry, followed by the default
\* container as the final else branch; with the default container alone the
\* implementation has no add_widget; with nothing registered there is no
\* implementation.
DispatcherFallsBackToDefault ==
    pc = "done" =>
        LET registry == generator.container_names
            named    == (DOMAIN registry) \ {None}
        IN  /\ registry = EmptyMap => result[1].container_impl = <<>>
            /\ DOMAIN registry = {None} =>
                  /\ Len(result[1].container_impl) = 1
                  /\ AddWidget = <<>>
            /\ (None \in DOMAIN registry /\ named # {}) =>
                  /\ Len(result[1].container_impl) = 1
                  /\ Len(AddWidget) = 1
                  /\ LET branches == AddWidget[1].branches
                         n        == Len(branches)
                     IN  /\ n = Cardinality(named) + 1
                         /\ branches[n].keyword = "else"
                         /\ branches[n].body = container_branch(registry[None])
                         /\ \A b \in 1..(n - 1) :
                               /\ branches[b].keyword = IF b = 1 THEN "if" ELSE "else if"
                               /\ branches[b].parent_id[1] \in {k[1] : k \in named}
                               /\ branches[b].body =
                                     container_branch(registry[Some(branches[b].parent_id[1])])
                         /\ \A k \in named :
                               Cardinality({b \in 1..(n - 1) :
                                               branches[b].parent_id = Some(k[1])}) = 1

\* C7's case: two named containers and the default one, the default one
\* declared first, the named ones emitted against their declaration order.
DispatcherWitness ==
    /\ pc = "done"
    /\ Len(tree) = 3
    /\ tree[1].container_type = Some(None)
    /\ tree[2].container_type = Some(Some("left"))
    /\ Cardinality(DOMAIN generator.container_names) = 3
    /\ AddWidget[1].branches[1].parent_id = Some("right")

(***************************************************************************)
(* Properties of the emitted statements.                                   *)
(***************************************************************************)
\* The statement list gen returns.
Code == result[1].code

\* The widget a statement of the walk is emitted for; 0 for any other
\* statement.
StmtWidget(st) ==
    CASE st.stmt = "let" -> st.name
      [] st.stmt = "show" -> st.name
      [] st.stmt = "set_property" -> st.ident.name
      [] st.stmt = "add" -> st.child
      [] st.stmt = "set_child_property" -> st.child.name
      [] OTHER -> 0

\* The widgets below widget i.
Descendants(i) ==
    {j \in Nodes \ {i} : i \in Ancestors([n \in Nodes |-> tree[n].parent], j)}

\* The places in Code of the statements emitted for the widgets below i.
DescendantPlaces(i) ==
    {k \in 1..Len(Code) : \E j \in Descendants(i) : StmtWidget(Code[k]) = tree[j].name}

\* The places in Code of widget i's statements of form stmt.
Places(i, stmt) ==
    {k \in 1..Len(Code) : Code[k].stmt = stmt /\ StmtWidget(Code[k]) = tree[i].name}

\* The places in Code of widget i's set_visible call.
VisiblePlaces(i) == {k \in Places(i, "set_property") : Code[k].func = <<"set_", "visible">>}

HasVisible(i) ==
    \E k \in 1..Len(tree[i].properties) : tree[i].properties[k].key = "visible"

ConstructByInitParameters ==
    pc = "done" =>
        \A i \in Nodes :
            tree[i].widget.tag = "Gtk" =>
                /\ Cardinality(Places(i, "let")) = 1
                /\ \A k \in Places(i, "let") :
                      /\ Code[k].init.typ = tree[i].typ
                      /\ Code[k].init.params = tree[i].init_parameters
                      /\ Code[k].init.call =
                            IF tree[i].init_parameters = <<>> THEN "g_object_new" ELSE "new"

\* C8's case: a Gtk widget with two init_parameters, properties and a Relm
\* parent.
ConstructWitness ==
    /\ pc = "done"
    /\ \E i \in Nodes :
          /\ tree[i].widget.tag = "Gtk"
          /\ tree[i].init_parameters = <<"b", "a">>
          /\ tree[i].properties # <<>>
          /\ tree[i].parent # 0
          /\ tree[tree[i].parent].widget.tag = "Relm"

\* The number of Remover calls on the value of widget i's key in list.
RemoverCalls(i, list, key) ==
    Cardinality({k \in 1..Len(remover_calls) :
                    remover_calls[k] = [widget |-> tree[i].name, list |-> list, key |-> key]})

\* C10 as claimed: every property value and every child property value of a
\* widget with a parent is handed to the Remover once, and the setter call
\* emitted for it carries the rewritten value.
RewriterOnEveryValue ==
    pc = "done" =>
        \A i \in Nodes :
            /\ \A n \in 1..Len(tree[i].properties) :
                  LET property == tree[i].properties[n]
                  IN  /\ RemoverCalls(i, "properties", property.key) = 1
                      /\ \E k \in Places(i, "set_property") :
                            /\ Code[k].func = <<"set_", property.key>>
                            /\ Code[k].value = fold_expr(property.value)
            /\ tree[i].parent # 0 =>
                  \A n \in 1..Len(tree[i].child_properties) :
                      LET property == tree[i].child_properties[n]
                      IN  /\ RemoverCalls(i, "child_properties", property.key) = 1
                          /\ \E k \in Places(i, "set_child_property") :
                                /\ Code[k].func = <<"set_child_", property.key>>
                                /\ Code[k].value = fold_expr(property.value)

(***************************************************************************)
(* Properties of the event wiring.                                         *)
(***************************************************************************)
\* What a statement of Code does, and to which widget.
Step(st) ==
    CASE st.stmt = "let" -> [op |-> "construct", widget |-> st.name]
      [] st.stmt = "add" -> [op |-> "insert", widget |-> st.child, into |-> st.parent]
      [] st.stmt = "show" -> [op |-> "show", widget |-> st.name]
      [] st.stmt = "block" ->
            [op |-> "connect", widget |-> st.body[Len(st.body)].widget[1],
             event |-> st.body[Len(st.body)].event]
      [] OTHER -> [op |-> st.stmt]

\* The steps of Code, in order.
Steps == [k \in 1..Len(Code) |-> Step(Code[k])]

\* C3, as amended: for ButtonsTree the statements are, in this order: construct
\* Root, construct ButtonA, insert ButtonA into Root, show ButtonA, construct
\* ButtonB, insert ButtonB into Root, show ButtonB, show Root, the component
\* value, and only then the connection of ButtonA's click and of ButtonB's.
ButtonsEventsAfterWidgets ==
    (pc = "done" /\ tree = ButtonsTree) =>
        Steps = <<[op |-> "construct", widget |-> 1],
                  [op |-> "construct", widget |-> 2],
                  [op |-> "insert", widget |-> 2, into |-> 1],
                  [op |-> "show", widget |-> 2],
                  [op |-> "construct", widget |-> 3],
                  [op |-> "insert", widget |-> 3, into |-> 1],
                  [op |-> "show", widget |-> 3],
                  [op |-> "show", widget |-> 1],
                  [op |-> "let self"],
                  [op |-> "downgrade"],
                  [op |-> "destructure"],
                  [op |-> "connect", widget |-> 2, event |-> <<"connect_", "clicked">>],
                  [op |-> "connect", widget |-> 3, event |-> <<"connect_", "clicked">>],
                  [op |-> "self"]>>

\* C3's case: ButtonsTree compiled.
ButtonsWitness ==
    /\ pc = "done"
    /\ tree = ButtonsTree
    /\ Len(generator.events) = 2

\* C3 as claimed: for ButtonsTree the construct, insert, show and connect
\* statements come with each button's connection right after its show.
ButtonsEventsAfterShow ==
    (pc = "done" /\ tree = ButtonsTree) =>
        SelectSeq(Steps, LAMBDA st : st.op \in {"construct", "insert", "show", "connect"})
            = <<[op |-> "construct", widget |-> 1],
                [op |-> "construct", widget |-> 2],
                [op |-> "insert", widget |-> 2, into |-> 1],
                [op |-> "show", widget |-> 2],
                [op |-> "connect", widget |-> 2, event |-> <<"connect_", "clicked">>],
                [op |-> "construct", widget |-> 3],
                [op |-> "insert", widget |-> 3, into |-> 1],
                [op |-> "show", widget |-> 3],
                [op |-> "connect", widget |-> 3, event |-> <<"connect_", "clicked">>],
                [op |-> "show", widget |-> 1]>>

\* The events of Relm widget i in the order collect_relm_events meets them.
RelmEvents(i) ==
    Concat([n \in 1..Len(tree[i].widget.events) |-> tree[i].widget.events[n].events])

\* The event has a return: Return or CallReturn.
HasReturn(event) == event.value.ret.kind \in {"Return", "CallReturn"}

\* The blocks in events that connect an event of the widget named name.
BlocksOf(name) ==
    SelectSeq(generator.events, LAMBDA b : b.body[Len(b.body)].widget = <<name>>)

\* C6: a Relm widget with an event that has a return makes the walk panic
\* with unreachable!() when it is visited; the events then hold no connect
\* for that event: only those of the widget's events before it, each in the
\* form it was declared with; a tree with such a widget never compiles.
ReturnOnRelmPanics ==
    /\ \A i \in Nodes :
          (tree[i].widget.tag = "Relm" /\ \E n \in 1..Len(RelmEvents(i)) :
                                             HasReturn(RelmEvents(i)[n])) =>
              /\ pc # "done"
              /\ result = None
              /\ ~WalkDone
              /\ i \in Entered =>
                    /\ pc = "panic"
                    /\ panic[1].node = i
                    /\ panic[1].message = Unreachable.message
                    /\ LET blocks == BlocksOf(tree[i].name)
                       IN  /\ Len(blocks) < Len(RelmEvents(i))
                           /\ HasReturn(RelmEvents(i)[Len(blocks) + 1])
                           /\ \A n \in 1..Len(blocks) :
                                 /\ ~HasReturn(RelmEvents(i)[n])
                                 /\ blocks[n].body[2].value = RelmEvents(i)[n].value.ret.value
                                 /\ blocks[n].body[2].form =
                                       IF RelmEvents(i)[n].value.target = "CurrentWidget"
                                       THEN "stream_relm" ELSE "stream_foreign"

\* C6's case: the walk has panicked on a Relm widget whose second event is a
\* CallReturn on the current widget, the first one having been connected.
ReturnOnRelmWitness ==
    /\ pc = "panic"
    /\ panic[1].node # 0
    /\ tree[panic[1].node].widget.tag = "Relm"
    /\ Len(RelmEvents(panic[1].node)) = 2
    /\ RelmEvents(panic[1].node)[2].value = CurrentWidget(CallReturn("func"))
    /\ Len(generator.events) = 1

\* The widget clones the handle for its events: a Gtk widget with save, and
\* any Relm widget.
Saves(i) == tree[i].widget.tag = "Relm" \/ tree[i].widget.save

\* The number of events bound on widget i itself.
EventCount(i) ==
    IF tree[i].widget.tag = "Relm" THEN Len(RelmEvents(i)) ELSE Len(tree[i].widget.events)

\* C9, as amended: every event of a widget is wired in a block of its own,
\* and when the widget's save flag is true each of these blocks starts with
\* its own clone of the handle, right before its connect: as many clones as
\* events; without the save flag a block holds the connect alone.
CloneInEveryBlock ==
    \A i \in Registered :
        LET blocks == BlocksOf(tree[i].name)
        IN  /\ Len(blocks) = EventCount(i)
            /\ \A n \in 1..Len(blocks) :
                  IF Saves(i)
                  THEN /\ Len(blocks[n].body) = 2
                       /\ blocks[n].body[1] = [stmt |-> "clone"]
                       /\ blocks[n].body[2].stmt = "connect"
                  ELSE /\ Len(blocks[n].body) = 1
                       /\ blocks[n].body[1].stmt = "connect"

\* C9's case: a Gtk widget with the save flag and two events, compiled.
CloneWitness ==
    /\ pc = "done"
    /\ \E i \in Nodes :
          /\ tree[i].widget.tag = "Gtk"
          /\ tree[i].widget.save
          /\ Len(tree[i].widget.events) = 2
          /\ Len(generator.events) = 2

\* C9 as claimed: of the blocks of a widget with the save flag and two or
\* more events, the first one clones the handle and the later ones do not.
CloneOnlyBeforeFirst ==
    \A i \in Registered :
        (Saves(i) /\ EventCount(i) >= 2) =>
            LET blocks == BlocksOf(tree[i].name)
            IN  /\ Len(blocks) = EventCount(i)
                /\ blocks[1].body[1].stmt = "clone"
                /\ \A n \in 2..Len(blocks) : blocks[n].body[1].stmt # "clone"

\* Widgets of either kind, a Gtk widget saved or not, each declaring no
\* container or the default one.
SavedProfiles ==
    {Profile("Gtk", container_type, save, <<>>, <<>>, <<>>, <<>>, <<>>) :
        container_type \in {None, Some(None)}, save \in BOOLEAN}
    \cup {Profile("Relm", container_type, FALSE, <<>>, <<>>, <<>>, <<>>, <<>>) :
              container_type \in {None, Some(None)}}

\* The trees of SavedProfiles, the Driver's widgets map holding any of the
\* names a tree can use; a name the tree does not use is a foreign key.
InitSaved ==
    /\ \E n \in 1..MaxNodes : \E p \in Shapes(n) : \E f \in [1..n -> SavedProfiles] :
          tree = MkTree(p, f)
    /\ \E widgets \in SUBSET (1..MaxNodes) : StartWith(widgets)

SpecSaved == InitSaved /\ [][Next]_vars

(***************************************************************************)
(* C11: the place of the statement that inserts a widget into its parent.  *)
(***************************************************************************)
\* The calls that create a Relm widget inside its parent, lines 188-201.
AddWidgetCalls == {"::relm::ContainerWidget::add_widget", "::relm::RelmContainer::add_widget"}

\* The places in Code of the statements that insert widget i into its parent:
\* an add call, or a let statement initialised by an add_widget call.
InsertPlaces(i) ==
    Places(i, "add") \cup {k \in Places(i, "let") : Code[k].init.call \in AddWidgetCalls}

\* The places in Code of widget i's setters other than set_visible.
NonVisiblePlaces(i) == Places(i, "set_property") \ VisiblePlaces(i)

ContainerNodes == {i \in Nodes : tree[i].container_type # None}

\* C12: when gen returns, every widget that declares a container is a key of
\* the returned relm_widgets, a Gtk one (its save flag false or not) mapped to
\* its type and a Relm one to relm::Component of its type, while
\* container_names keeps the Relm widget's bare type; and the widget name of
\* every container_names entry is a key of the returned relm_widgets.
ContainersAreSaved ==
    pc = "done" =>
        LET relm_widgets == result[1].relm_widgets
        IN  /\ \A i \in ContainerNodes :
                  LET entry == generator.container_names[tree[i].container_type[1]]
                  IN  /\ tree[i].name \in DOMAIN relm_widgets
                      /\ entry = [name |-> tree[i].name, typ |-> tree[i].typ]
                      /\ IF tree[i].widget.tag = "Gtk"
                         THEN relm_widgets[tree[i].name] = tree[i].typ
                         ELSE /\ relm_widgets[tree[i].name].segments = <<"relm", "Component">>
                              /\ relm_widgets[tree[i].name].args = <<tree[i].typ>>
                              /\ relm_widgets[tree[i].name] # entry.typ
            /\ \A c \in DOMAIN generator.container_names :
                  generator.container_names[c].name \in DOMAIN relm_widgets

\* C12's case: gen returned for a tree in which a Gtk widget that is not
\* saved and a Relm widget both declare a container.
ContainersAreSavedWitness ==
    /\ pc = "done"
    /\ \E i, j \in ContainerNodes :
          /\ tree[i].widget.tag = "Gtk"
          /\ ~tree[i].widget.save
          /\ tree[j].widget.tag = "Relm"

(***************************************************************************)
(* C13: the fields of the component value.                                 *)
(***************************************************************************)
\* The places in Code of the statement that builds the component value.
SelfPlaces == {k \in 1..Len(Code) : Code[k].stmt = "let self"}

\* The widget named name; the names of a tree are unique.
NodeOf(name) == CHOOSE i \in Nodes : tree[i].name = name

\* How often name is among fields.
Occurrences(fields, name) == Cardinality({k \in 1..Len(fields) : fields[k] = name})

\* C13: when gen returns, the component value is built once; its fields
\* start with the root widget, name the root once and no widget twice, follow
\* the order of the walk, and are the root, the keys of the returned
\* relm_widgets and the tree's widgets among the keys of the driver's widgets;
\* the destructuring pattern lists the same fields.
FieldsNameEachWidgetOnce ==
    pc = "done" =>
        /\ Cardinality(SelfPlaces) = 1
        /\ \A s \in SelfPlaces :
              LET fields == Code[s].fields
                  listed == {fields[k] : k \in 1..Len(fields)}
                  names  == {tree[i].name : i \in Nodes}
              IN  /\ fields[1] = tree[1].name
                  /\ Occurrences(fields, tree[1].name) = 1
                  /\ \A i \in Nodes : Occurrences(fields, tree[i].name) <= 1
                  /\ listed \subseteq names
                  /\ \A a, b \in 1..Len(fields) :
                        a < b => NodeOf(fields[a]) < NodeOf(fields[b])
                  /\ DOMAIN result[1].relm_widgets \subseteq listed
                  /\ listed = {tree[1].name} \cup DOMAIN result[1].relm_widgets
                                  \cup (driver.widgets \cap names)
                  /\ \A k \in 1..Len(Code) :
                        Code[k].stmt = "destructure" => Code[k].fields = fields

\* C13's case: gen returned for a tree of three widgets whose root is a key of
\* relm_widgets and of the driver's widgets, with one more widget known only
\* to the driver and one known to neither.
FieldsWitness ==
    /\ pc = "done"
    /\ Len(tree) = 3
    /\ tree[1].name \in DOMAIN result[1].relm_widgets \cap driver.widgets
    /\ \E i, j \in 2..3 :
          /\ tree[i].name \in driver.widgets \ DOMAIN result[1].relm_widgets
          /\ tree[j].name \notin driver.widgets \cup DOMAIN result[1].relm_widgets

====
